---- MODULE Spec2Model ----
(***************************************************************************)
(* Model of netbox_topology_views/views.py: get_topology_data, the graph   *)
(* builder that turns a device queryset and the cables of the database     *)
(* into {nodes, edges}, its caller TopologyHomeView.get, and the legacy    *)
(* builder get_topology_data_old.  One call runs per behaviour; an         *)
(* exception raised inside a function leaves pc = "raised".                *)
(*                                                                         *)
(* Python values are represented as follows.                               *)
(*   None / True / False of an Optional[bool]  : "None", "True", "False"   *)
(*   Optional[Collection[str]]                 : [none : BOOLEAN, v : set] *)
(*   str                                       : a sequence of pieces      *)
(*   dict                                      : a function on its keys    *)
(***************************************************************************)
EXTENDS Integers, Sequences, FiniteSets, TLC

\* ---------------------------------------------------------------- bounds
MaxDevices == 2
MaxCables == 2

\* ------------------------------------------------------ python primitives
NoneSet == [none |-> TRUE, v |-> {}]
Some(s) == [none |-> FALSE, v |-> s]

\* bool(x) of an Optional[bool]: None and False are falsy.
Truthy(x) == x = "True"

SeqToSet(s) == {s[i] : i \in DOMAIN s}

\* ------------------------------------------------------------ the database
\* dcim.Device rows: the primary keys are not dense and do not start at 0.
AllDevices == {11, 12, 13}

DeviceRoleSlug(d) == IF d = 12 THEN "switch" ELSE "router"

DeviceRoleName(d) == IF d = 12 THEN <<"S", "w">> ELSE <<"R", "&", "D">>

DeviceRoleColor(d) == IF d = 12 THEN "" ELSE "2196f3"

\* device.name: a string (a sequence of characters) or None.
DeviceName(d) ==
    IF d = 11 THEN [none |-> FALSE, s |-> <<"a", "<", "b">>]
    ELSE IF d = 12 THEN [none |-> TRUE, s |-> <<>>]
    ELSE [none |-> FALSE, s |-> <<"s", "w">>]

\* str(pk), one piece
PkStr(d) == IF d = 11 THEN "11" ELSE IF d = 12 THEN "12" ELSE "13"

\* device.identifier: the name, or "{pk}" for an unnamed device.
DeviceIdentifier(d) ==
    IF DeviceName(d).none THEN <<"{", PkStr(d), "}">> ELSE DeviceName(d).s

\* str(device): the name, or a string made of the primary key.
DeviceStr(d) ==
    IF DeviceName(d).none THEN <<"(", PkStr(d), ")">> ELSE DeviceName(d).s

\* ContentType rows of the termination kinds: .model and .name
InterfaceType == [model |-> "interface", name |-> "interface"]
PowerPortType == [model |-> "powerport", name |-> "power port"]
PowerOutletType == [model |-> "poweroutlet", name |-> "power outlet"]
CircuitTerminationType == [model |-> "circuittermination", name |-> "circuit termination"]

\* A cable termination.  A CircuitTermination belongs to a circuit and has no
\* device (Cable._termination_x_device is NULL for it).
Interface(d, n) == [type |-> InterfaceType, device |-> d, circuit |-> "None", name |-> n]
PowerPort(d, n) == [type |-> PowerPortType, device |-> d, circuit |-> "None", name |-> n]
PowerOutlet(d, n) == [type |-> PowerOutletType, device |-> d, circuit |-> "None", name |-> n]
CircuitTermination(c, side) ==
    [type |-> CircuitTerminationType, device |-> "None", circuit |-> c, name |-> side]

\* dcim.Cable rows the database may hold.  Circuit "c1" joins device 11 (cable
\* 4, termination A) and device 13 (cable 5, termination Z); cable 6 attaches
\* device 12 to termination A of circuit "c2", whose other end is not cabled.
CableUniverse ==
    { [id |-> 1, termination_a |-> Interface(11, "eth0"), termination_b |-> Interface(12, "eth0"),
       type |-> "cat6", color |-> "ff0000"],
      [id |-> 3, termination_a |-> PowerPort(11, "psu0"), termination_b |-> PowerOutlet(13, "out0"),
       type |-> "power", color |-> ""],
      [id |-> 4, termination_a |-> CircuitTermination("c1", "A"), termination_b |-> Interface(11, "eth2"),
       type |-> "", color |-> ""],
      [id |-> 5, termination_a |-> CircuitTermination("c1", "Z"), termination_b |-> Interface(13, "eth2"),
       type |-> "", color |-> "00ff00"],
      [id |-> 6, termination_a |-> Interface(12, "eth2"), termination_b |-> CircuitTermination("c2", "A"),
       type |-> "", color |-> ""] }

AllCircuits == {"c1", "c2"}

\* circuit.provider.name
CircuitProviderName(c) == <<"I", "S", "P">>

\* settings.PLUGINS_CONFIG["netbox_topology_views"]
PluginConfigs ==
    [ignore_cable_type : {{}, {"power port"}},
     enable_circuit_terminations : {"True", "False"},
     device_img : {{"router"}}]

\* Querysets: sequences of distinct devices.
Querysets ==
    {q \in UNION {[1..n -> AllDevices] : n \in 0..MaxDevices} :
        \A i, j \in DOMAIN q : i # j => q[i] # q[j]}

\* ------------------------------------------------------------------ state
VARIABLES
    db_cables,                   \* Cable.objects: the cable rows
    plugin_config,               \* settings.PLUGINS_CONFIG[...]
    pc,                          \* position in the running function
    caller,                      \* "view" or "direct": get_topology_data is running;
                                 \* "old": get_topology_data_old is running
    queryset, hide_unconnected, ignore_cable_types,
    enable_circuit_terminations, enabled_device_images,
    device_ids, devices_with_cables,
    cables,                      \* fetched cables not yet iterated
    todo,                        \* devices of the node loop not yet iterated
    nodes, edges,
    result,                      \* the returned value
    nodes_ids, edge_ids, cable_ids, circuit_ids,   \* get_topology_data_old
    links,                       \* links_device rows not yet iterated
    device_has_connections,
    cable_a_name,                \* a local that is unbound until first assigned
    edge_cable,                  \* history: id of the cable each edge came from
    config_loaded, cables_queried \* history: the lookups performed

vars == <<db_cables, plugin_config, pc, caller, queryset, hide_unconnected,
          ignore_cable_types, enable_circuit_terminations, enabled_device_images,
          device_ids, devices_with_cables, cables, todo, nodes, edges, result,
          nodes_ids, edge_ids, cable_ids, circuit_ids, links, device_has_connections,
          cable_a_name, edge_cable, config_loaded, cables_queried>>

db == <<db_cables, plugin_config>>
args == <<caller, queryset, hide_unconnected>>
old_locals == <<nodes_ids, edge_ids, cable_ids, circuit_ids, links, device_has_connections,
                cable_a_name>>
new_locals == <<device_ids, devices_with_cables, cables, todo, nodes, edges, edge_cable>>
locals == <<new_locals, old_locals>>

Unbound == [bound |-> FALSE, s |-> ""]
Bound(x) == [bound |-> TRUE, s |-> x]

Init ==
    /\ db_cables \in {s \in SUBSET CableUniverse : Cardinality(s) <= MaxCables}
    /\ plugin_config \in PluginConfigs
    /\ pc = "idle"
    /\ caller = "none"
    /\ queryset = <<>>
    /\ hide_unconnected = "False"
    /\ ignore_cable_types = Some({})
    /\ enable_circuit_terminations = "None"
    /\ enabled_device_images = NoneSet
    /\ device_ids = {}
    /\ devices_with_cables = {}
    /\ cables = <<>>
    /\ todo = <<>>
    /\ nodes = <<>>
    /\ edges = <<>>
    /\ result = [none |-> TRUE]
    /\ nodes_ids = <<>>
    /\ edge_ids = 0
    /\ cable_ids = <<>>
    /\ circuit_ids = <<>>
    /\ links = <<>>
    /\ device_has_connections = FALSE
    /\ cable_a_name = Unbound
    /\ edge_cable = <<>>
    /\ config_loaded = FALSE
    /\ cables_queried = FALSE

\* ------------------------------------------------------------ formatting
\* django.utils.html.escape, character by character.
EscapeChar(ch) ==
    CASE ch = "&" -> "&amp;"
      [] ch = "<" -> "&lt;"
      [] ch = ">" -> "&gt;"
      [] ch = "\"" -> "&quot;"
      [] ch = "'" -> "&#x27;"
      [] OTHER -> ch

escape(text) == [i \in DOMAIN text |-> EscapeChar(text[i])]

\* str(None)
NoneStr == <<"N", "o", "n", "e">>

RECURSIVE JoinRows(_)
JoinRows(rows) ==
    IF rows = <<>> THEN <<>>
    ELSE <<"<th align=\"right\">", rows[1][1], "</th><td>">> \o escape(rows[1][2]) \o <<"</td>">>
         \o (IF Len(rows) > 1 THEN <<"</tr><tr>">> ELSE <<>>) \o JoinRows(Tail(rows))

generate_description(title, from_data) ==
    <<"<span class=\"topology-item-description\">">> \o escape(title) \o <<"</span>">>
    \o <<"<table class=\"topology-item-table\"><tr>">> \o JoinRows(from_data)
    \o <<"</tr></table>">>

\* ------------------------------------------------- get_topology_data: pieces
\* The default values of the optional parameters (the def line).
DefaultHideUnconnected == "False"
DefaultIgnoreCableTypes == Some({})
DefaultEnableCircuitTerminations == "None"
DefaultEnabledDeviceImages == NoneSet

\* Mutant of QuerysetIsEmpty: the emptiness test is lost.
QuerysetIsEmptyNever(qs) == FALSE

\* "if not queryset"
QuerysetIsEmpty(qs) == qs = <<>>

\* "if x is None: x = plugin_config[key]"
OrConfig(x, configured) == IF x.none THEN Some(configured) ELSE x
OrConfigBool(x, configured) == IF x = "None" THEN configured ELSE x

\* Cable._termination_x_device_id IN device_ids (NULL for a circuit termination)
TerminationDeviceIn(t, ids) ==
    /\ t.type.model # "circuittermination"
    /\ t.device \in ids

\* Mutant of CablesQuery: the ignore list is matched against termination A only.
CablesQueryOneSided(rows, ids, enable_ct, ignore) ==
    {c \in rows :
        /\ \/ TerminationDeviceIn(c.termination_a, ids)
           \/ TerminationDeviceIn(c.termination_b, ids)
        /\ ~Truthy(enable_ct) =>
              ~(\/ c.termination_a.type.model = "circuittermination"
                \/ c.termination_b.type.model = "circuittermination")
        /\ ignore # {} => ~(c.termination_a.type.name \in ignore)}

\* Cable.objects.filter(*cables_query): the rows the query returns.
CablesQuery(rows, ids, enable_ct, ignore) ==
    {c \in rows :
        /\ \/ TerminationDeviceIn(c.termination_a, ids)
           \/ TerminationDeviceIn(c.termination_b, ids)
        /\ ~Truthy(enable_ct) =>
              ~(\/ c.termination_a.type.model = "circuittermination"
                \/ c.termination_b.type.model = "circuittermination")
        /\ ignore # {} =>
              ~(\/ c.termination_a.type.name \in ignore
                \/ c.termination_b.type.name \in ignore)}

\* The rows in the order of the model's default ordering, the primary key.
RECURSIVE OrderById(_)
OrderById(rows) ==
    IF rows = {} THEN <<>>
    ELSE LET first == CHOOSE c \in rows : \A o \in rows : c.id <= o.id
         IN  <<first>> \o OrderById(rows \ {first})

\* "cable.termination_x_type in ignore_cable_types": a ContentType object is
\* looked up among type names, and an object never equals a string.
TypeObjectIn(type, names) == \E n \in names : FALSE

\* isinstance(t, CircuitTermination)
IsCircuitTermination(t) == t.type.model = "circuittermination"

\* Mutant of UpdateDevicesWithCables: only termination A's device is recorded.
UpdateDevicesWithCablesOneEnd(with_cables, t_a, t_b) == with_cables \cup {t_a.device}

\* devices_with_cables.update((t_a.device.id, t_b.device.id))
UpdateDevicesWithCables(with_cables, t_a, t_b) == with_cables \cup {t_a.device, t_b.device}

\* The edge dict of one cable.
EdgeOf(cable, edge_id) ==
    LET t_a == cable.termination_a
        t_b == cable.termination_b
        base == [ id |-> edge_id,
                  from |-> t_a.device,
                  to |-> t_b.device,
                  title |-> <<"Cable between:<br>", DeviceStr(t_a.device), " [", t_a.name,
                              "]<br>", DeviceStr(t_b.device), " [", t_b.name, "]">>,
                  headlabel |-> t_a.name,
                  taillabel |-> t_b.name ]
        typed == IF cable.type # ""
                 THEN ("label" :> cable.type) @@ ("font" :> [align |-> "middle"])
                 ELSE <<>>
        colored == IF cable.color # "" THEN ("color" :> <<"#", cable.color>>) ELSE <<>>
    IN  base @@ typed @@ colored

\* Mutant of SkipDevice: unconnected devices are skipped whatever the flag.
SkipDeviceWhateverFlag(hide, device_id, with_cables) == device_id \notin with_cables

\* "hide_unconnected and device_id not in devices_with_cables"
SkipDevice(hide, device_id, with_cables) == Truthy(hide) /\ device_id \notin with_cables

\* Mutant of NodeId: the primary key of the device's role is used.
NodeIdOfRole(device) == IF device = 12 THEN 2 ELSE 1

\* node["id"]
NodeId(device) == device

\* node["name"]
NodeName(device) ==
    escape(IF DeviceName(device).none THEN NoneStr
           ELSE <<"u", "n", "t", "i", "t", "l", "e", "d", "-">> \o DeviceIdentifier(device))

\* node_data: Status always, then the fields that are set.
NodeData(device) ==
    <<<<"Status", <<"active">>>>, <<"Type", <<"m", "x">>>>>>
    \o (IF DeviceRoleName(device) # <<>> THEN <<<<"Role", DeviceRoleName(device)>>>> ELSE <<>>)

\* The node dict of one device.
NodeOf(device, images) ==
    LET role_image_slug == IF DeviceRoleSlug(device) \in images.v
                           THEN DeviceRoleSlug(device) ELSE "role-unknown"
        device_label == DeviceStr(device)
        base == [ id |-> NodeId(device),
                  name |-> NodeName(device),
                  label |-> escape(device_label),
                  shape |-> "image",
                  image |-> <<"../../static/netbox_topology_views/img/", role_image_slug, ".png">>,
                  title |-> generate_description(device_label, NodeData(device)) ]
        bordered == IF DeviceRoleColor(device) # ""
                    THEN ("color.border" :> <<"#", DeviceRoleColor(device)>>) ELSE <<>>
    IN  base @@ bordered

\* ------------------------------------------------------------ the callers
OptionalBools == {"None", "True", "False"}
BOOLEAN_STR == {"True", "False"}

\* What a caller may pass for an optional parameter: nothing (given = FALSE),
\* None, or a value.
IgnoreArguments ==
    {[given |-> FALSE, val |-> NoneSet]}
    \cup {[given |-> TRUE, val |-> x] : x \in {NoneSet, Some({}), Some({"power outlet"})}}

ImageArguments ==
    {[given |-> FALSE, val |-> NoneSet], [given |-> TRUE, val |-> Some({"switch"})]}

HideArguments == {[given |-> TRUE, val |-> x] : x \in OptionalBools}

EnableArguments ==
    {[given |-> FALSE, val |-> "None"]} \cup {[given |-> TRUE, val |-> x] : x \in BOOLEAN_STR}

\* Binding of the parameters at the call: an argument left out takes the
\* default of the def line.
Enter(who, qs, hide, ignore, enable_ct, images) ==
    /\ pc = "idle"
    /\ pc' = "entry"
    /\ caller' = who
    /\ queryset' = qs
    /\ hide_unconnected' = IF hide.given THEN hide.val ELSE DefaultHideUnconnected
    /\ ignore_cable_types' = IF ignore.given THEN ignore.val ELSE DefaultIgnoreCableTypes
    /\ enable_circuit_terminations' =
          IF enable_ct.given THEN enable_ct.val ELSE DefaultEnableCircuitTerminations
    /\ enabled_device_images' = IF images.given THEN images.val ELSE DefaultEnabledDeviceImages
    /\ UNCHANGED <<db, locals, result, config_loaded, cables_queried>>

\* Any caller of the function, with any arguments.
DirectCall ==
    \E qs \in Querysets, hide \in HideArguments, ignore \in IgnoreArguments,
       enable_ct \in EnableArguments, images \in ImageArguments :
        Enter("direct", qs, hide, ignore, enable_ct, images)

\* TopologyHomeView.get with a non-empty request.GET whose draw_init is absent
\* or "true": get_topology_data(self.queryset, hide_unconnected), where
\* hide_unconnected is True for hide_unconnected=on and None otherwise.
TopologyHomeView_get ==
    \E qs \in Querysets, hide \in {"None", "True"} :
        Enter("view", qs, [given |-> TRUE, val |-> hide],
              [given |-> FALSE, val |-> NoneSet], [given |-> FALSE, val |-> "None"],
              [given |-> FALSE, val |-> NoneSet])

\* ------------------------------------------------ get_topology_data: steps
\* "if not queryset: return None"
CheckQueryset ==
    /\ pc = "entry"
    /\ IF QuerysetIsEmpty(queryset)
       THEN pc' = "done" /\ result' = [none |-> TRUE]
       ELSE pc' = "config" /\ UNCHANGED result
    /\ UNCHANGED <<db, args, ignore_cable_types, enable_circuit_terminations,
                   enabled_device_images, locals, config_loaded, cables_queried>>

\* Load the plugin configuration and fill in the parameters that are None.
LoadConfig ==
    /\ pc = "config"
    /\ pc' = "query"
    /\ config_loaded' = TRUE
    /\ ignore_cable_types' = OrConfig(ignore_cable_types, plugin_config.ignore_cable_type)
    /\ enable_circuit_terminations' =
          OrConfigBool(enable_circuit_terminations, plugin_config.enable_circuit_terminations)
    /\ enabled_device_images' = OrConfig(enabled_device_images, plugin_config.device_img)
    /\ UNCHANGED <<db, args, locals, result, cables_queried>>

\* nodes, edges = [], []; device_ids; devices_with_cables; the cable query.
QueryCables ==
    /\ pc = "query"
    /\ pc' = "cables"
    /\ nodes' = <<>>
    /\ edges' = <<>>
    /\ edge_cable' = <<>>
    /\ device_ids' = SeqToSet(queryset)
    /\ devices_with_cables' = {}
    /\ cables' = OrderById(CablesQuery(db_cables, SeqToSet(queryset),
                                       enable_circuit_terminations, ignore_cable_types.v))
    /\ cables_queried' = TRUE
    /\ UNCHANGED <<db, args, ignore_cable_types, enable_circuit_terminations,
                   enabled_device_images, todo, result, config_loaded, old_locals>>

\* One iteration of "for cable in Cable.objects.filter(...)".
CableStep ==
    /\ pc = "cables"
    /\ cables # <<>>
    /\ LET cable == Head(cables)
           t_a == cable.termination_a
           t_b == cable.termination_b
       IN  IF \/ TypeObjectIn(cable.termination_a.type, ignore_cable_types.v)
              \/ TypeObjectIn(cable.termination_b.type, ignore_cable_types.v)
           THEN UNCHANGED <<devices_with_cables, edges, edge_cable>>
           ELSE IF IsCircuitTermination(t_a) \/ IsCircuitTermination(t_b)
           THEN UNCHANGED <<devices_with_cables, edges, edge_cable>>
           ELSE /\ devices_with_cables' = UpdateDevicesWithCables(devices_with_cables, t_a, t_b)
                /\ edges' = Append(edges, EdgeOf(cable, Len(edges)))
                /\ edge_cable' = Append(edge_cable, cable.id)
    /\ cables' = Tail(cables)
    /\ UNCHANGED <<db, pc, args, ignore_cable_types, enable_circuit_terminations,
                   enabled_device_images, device_ids, todo, nodes, result,
                   config_loaded, cables_queried, old_locals>>

\* The cable loop is exhausted: "for device in queryset" starts.
CablesDone ==
    /\ pc = "cables"
    /\ cables = <<>>
    /\ pc' = "nodes"
    /\ todo' = queryset
    /\ UNCHANGED <<db, args, ignore_cable_types, enable_circuit_terminations,
                   enabled_device_images, device_ids, devices_with_cables, cables,
                   nodes, edges, edge_cable, result, config_loaded, cables_queried,
                   old_locals>>

\* One iteration of "for device in queryset".
NodeStep ==
    /\ pc = "nodes"
    /\ todo # <<>>
    /\ LET device == Head(todo)
       IN  IF SkipDevice(hide_unconnected, device, devices_with_cables)
           THEN UNCHANGED nodes
           ELSE nodes' = Append(nodes, NodeOf(device, enabled_device_images))
    /\ todo' = Tail(todo)
    /\ UNCHANGED <<db, pc, args, ignore_cable_types, enable_circuit_terminations,
                   enabled_device_images, device_ids, devices_with_cables, cables,
                   edges, edge_cable, result, config_loaded, cables_queried, old_locals>>

\* return {"nodes": nodes, "edges": edges}
Return ==
    /\ pc = "nodes"
    /\ todo = <<>>
    /\ pc' = "done"
    /\ result' = [none |-> FALSE, nodes |-> nodes, edges |-> edges]
    /\ UNCHANGED <<db, args, ignore_cable_types, enable_circuit_terminations,
                   enabled_device_images, locals, config_loaded, cables_queried>>

\* ------------------------------------------- get_topology_data_old: pieces
\* Cable.objects.filter(Q(_termination_a_device_id=id) | Q(_termination_b_device_id=id))
LinksOfDevice(rows, device_id) ==
    {c \in rows : \/ TerminationDeviceIn(c.termination_a, {device_id})
                  \/ TerminationDeviceIn(c.termination_b, {device_id})}

\* circuit.termination_a.cable / circuit.termination_z.cable: the cable rows
\* attached to that termination of the circuit (none or one).
CircuitTerminationCables(rows, circuit, side) ==
    {c \in rows :
        \E t \in {c.termination_a, c.termination_b} :
            IsCircuitTermination(t) /\ t.circuit = circuit /\ t.name = side}

\* "x = device.name; if x is None: x = default"
NameOr(name, default) == IF name.none THEN <<default>> ELSE name.s

\* Mutant of CircuitProcessed: the circuit is never found among the processed.
CircuitProcessedNever(circuit_id, processed) == FALSE

\* "circuit.id not in circuit_ids", negated
CircuitProcessed(circuit_id, processed) == circuit_id \in SeqToSet(processed)

\* The edge dict of a cable between two devices.
OldCableEdge(link, edge_id) ==
    LET t_a == link.termination_a
        t_b == link.termination_b
        base == [ id |-> edge_id,
                  from |-> t_a.device,
                  to |-> t_b.device,
                  title |-> <<"Cable between <br> ">>
                            \o NameOr(DeviceName(t_a.device), "device A name unknown")
                            \o <<" [", t_a.name, "]<br>">>
                            \o NameOr(DeviceName(t_b.device), "device B name unknown")
                            \o <<" [", t_b.name, "]">> ]
        colored == IF link.color # "" THEN ("color" :> <<"#", link.color>>) ELSE <<>>
    IN  base @@ colored

\* One of the two blocks "if circuit.termination_x is not None and ... :
\* edge['from'] = ...; edges.append(edge)", run on the state st = [raised,
\* edge, title, appended, name] for the cables far at that termination.  Block
\* A reads cable_a_name without assigning it; block Z assigns it first.
OldCircuitBlock(st, link, far, assigns_name) ==
    IF st.raised \/ {x \in far : x.id # link.id} = {} THEN st
    ELSE LET x == CHOOSE x \in far : x.id # link.id
         IN  IF IsCircuitTermination(x.termination_b)
             THEN [st EXCEPT !.raised = TRUE]      \* no attribute "device"
             ELSE IF ~assigns_name /\ ~st.name.bound
             THEN [st EXCEPT !.raised = TRUE]      \* cable_a_name is unbound
             ELSE LET name == IF assigns_name THEN Bound(x.termination_b.name) ELSE st.name
                      title == st.title
                               \o NameOr(DeviceName(x.termination_b.device), "device B name unknown")
                               \o <<" [", name.s, "]<br>">>
                  IN  [ raised |-> FALSE,
                        edge |-> ("from" :> x.termination_b.device) @@ ("title" :> title) @@ st.edge,
                        title |-> title,
                        appended |-> st.appended + 1,
                        name |-> name ]

\* The handling of a cable whose termination A is a circuit termination of a
\* circuit not yet processed: [raised, edges appended, cable_a_name].  The
\* list entries are one dict, so all show its final content.
OldCircuitOutcome(link, rows, edge_id, name) ==
    IF IsCircuitTermination(link.termination_b)
    THEN [raised |-> TRUE, new_edges |-> <<>>, name |-> name]
    ELSE
    LET circuit == link.termination_a.circuit
        t_b == link.termination_b
        title0 == <<"Circuit provider: ">> \o CircuitProviderName(circuit)
                  \o <<"<br>", "Termination between <br>">>
                  \o NameOr(DeviceName(t_b.device), "device B name unknown")
                  \o <<" [", t_b.name, "]<br>">>
        st0 == [ raised |-> FALSE,
                 edge |-> ("id" :> edge_id) @@ ("to" :> t_b.device) @@ ("dashes" :> TRUE),
                 title |-> title0, appended |-> 0, name |-> name ]
        st1 == OldCircuitBlock(st0, link, CircuitTerminationCables(rows, circuit, "A"), FALSE)
        st2 == OldCircuitBlock(st1, link, CircuitTerminationCables(rows, circuit, "Z"), TRUE)
    IN  [ raised |-> st2.raised,
          new_edges |-> [i \in 1 .. st2.appended |-> st2.edge],
          name |-> st2.name ]

\* "hide_unconnected == None or (hide_unconnected is True and
\* device_has_connections is True)"
OldShowDevice(hide, has_connections) == hide = "None" \/ (hide = "True" /\ has_connections)

\* The node dict of one device (no device has a "coordinates" custom field).
OldNodeOf(device, images) ==
    LET dev_name == NameOr(DeviceName(device), "device name unknown")
        node_content == <<"<tr><th>Type: </th><td>", "m", "x", "</td></tr>">>
                        \o <<"<tr><th>Role: </th><td>">> \o DeviceRoleName(device) \o <<"</td></tr>">>
        base == [ id |-> device,
                  name |-> dev_name,
                  label |-> dev_name,
                  title |-> <<"<table> ">> \o node_content \o <<" </table>">>,
                  shape |-> "image",
                  image |-> IF DeviceRoleSlug(device) \in images
                            THEN <<"../../static/netbox_topology_views/img/",
                                   DeviceRoleSlug(device), ".png">>
                            ELSE <<"../../static/netbox_topology_views/img/role-unknown.png">> ]
        bordered == IF DeviceRoleColor(device) # ""
                    THEN ("color.border" :> <<"#", DeviceRoleColor(device)>>) ELSE <<>>
    IN  base @@ bordered

\* ------------------------------------------- get_topology_data_old: steps
\* A call of get_topology_data_old(queryset, hide_unconnected).
OldCall ==
    \E qs \in Querysets, hide \in OptionalBools :
        /\ pc = "idle"
        /\ pc' = "old_entry"
        /\ caller' = "old"
        /\ queryset' = qs
        /\ hide_unconnected' = hide
        /\ UNCHANGED <<db, ignore_cable_types, enable_circuit_terminations,
                       enabled_device_images, locals, result, config_loaded, cables_queried>>

\* The lists are created; "if not queryset: return None".
OldCheckQueryset ==
    /\ pc = "old_entry"
    /\ nodes' = <<>>
    /\ nodes_ids' = <<>>
    /\ edges' = <<>>
    /\ edge_cable' = <<>>
    /\ edge_ids' = 0
    /\ cable_ids' = <<>>
    /\ circuit_ids' = <<>>
    /\ IF QuerysetIsEmpty(queryset)
       THEN pc' = "done" /\ result' = [none |-> TRUE]
       ELSE pc' = "old_config" /\ UNCHANGED result
    /\ UNCHANGED <<db, args, ignore_cable_types, enable_circuit_terminations,
                   enabled_device_images, device_ids, devices_with_cables, cables, todo,
                   links, device_has_connections, cable_a_name, config_loaded,
                   cables_queried>>

\* ignore_cable_type = settings...; device_ids = [d.id for d in queryset]
OldLoadConfig ==
    /\ pc = "old_config"
    /\ pc' = "old_devices"
    /\ config_loaded' = TRUE
    /\ ignore_cable_types' = Some(plugin_config.ignore_cable_type)
    /\ device_ids' = SeqToSet(queryset)
    /\ todo' = queryset
    /\ UNCHANGED <<db, args, enable_circuit_terminations, enabled_device_images,
                   devices_with_cables, cables, nodes, edges, edge_cable, old_locals,
                   result, cables_queried>>

\* "for qs_device in queryset": the cables of the device are fetched.
OldDeviceStart ==
    /\ pc = "old_devices"
    /\ todo # <<>>
    /\ pc' = "old_links"
    /\ device_has_connections' = FALSE
    /\ links' = OrderById(LinksOfDevice(db_cables, Head(todo)))
    /\ cables_queried' = TRUE
    /\ UNCHANGED <<db, args, ignore_cable_types, enable_circuit_terminations,
                   enabled_device_images, new_locals, nodes_ids, edge_ids, cable_ids,
                   circuit_ids, cable_a_name, result, config_loaded>>

\* One iteration of "for link_from in links_device".
OldLinkStep ==
    /\ pc = "old_links"
    /\ links # <<>>
    /\ LET link == Head(links)
           a_type == link.termination_a.type.name
           b_type == link.termination_b.type.name
           both_requested == /\ link.termination_a.device \in device_ids
                             /\ link.termination_b.device \in device_ids
           keep == /\ pc' = pc
                   /\ UNCHANGED <<edges, edge_cable, edge_ids, cable_ids, circuit_ids,
                                  cable_a_name>>
       IN  IF a_type # "circuit termination" /\ b_type # "circuit termination"
           THEN IF a_type \notin ignore_cable_types.v /\ b_type \notin ignore_cable_types.v
                THEN IF link.id \notin SeqToSet(cable_ids)
                     THEN IF both_requested
                          THEN /\ device_has_connections' = TRUE
                               /\ cable_ids' = Append(cable_ids, link.id)
                               /\ edge_ids' = edge_ids + 1
                               /\ cable_a_name' = Bound(link.termination_a.name)
                               /\ edges' = Append(edges, OldCableEdge(link, edge_ids + 1))
                               /\ edge_cable' = Append(edge_cable, link.id)
                               /\ UNCHANGED <<pc, circuit_ids>>
                          ELSE keep /\ UNCHANGED device_has_connections
                     ELSE /\ keep
                          /\ device_has_connections' = (device_has_connections \/ both_requested)
                ELSE keep /\ UNCHANGED device_has_connections
           ELSE IF /\ Truthy(plugin_config.enable_circuit_terminations)
                   /\ a_type = "circuit termination"
                   /\ ~CircuitProcessed(link.termination_a.circuit, circuit_ids)
                THEN LET out == OldCircuitOutcome(link, db_cables, edge_ids + 1, cable_a_name)
                     IN  /\ circuit_ids' = Append(circuit_ids, link.termination_a.circuit)
                         /\ edge_ids' = edge_ids + 1
                         /\ pc' = IF out.raised THEN "raised" ELSE pc
                         /\ edges' = edges \o out.new_edges
                         /\ edge_cable' = edge_cable \o [i \in DOMAIN out.new_edges |-> link.id]
                         /\ cable_a_name' = out.name
                         /\ UNCHANGED <<cable_ids, device_has_connections>>
                ELSE keep /\ UNCHANGED device_has_connections
    /\ links' = Tail(links)
    /\ UNCHANGED <<db, args, ignore_cable_types, enable_circuit_terminations,
                   enabled_device_images, device_ids, devices_with_cables, cables, todo,
                   nodes, nodes_ids, result, config_loaded, cables_queried>>

\* The cables of the device are exhausted: its node is added, or not.
OldNodeStep ==
    /\ pc = "old_links"
    /\ links = <<>>
    /\ pc' = "old_devices"
    /\ LET device == Head(todo)
       IN  IF /\ device \notin SeqToSet(nodes_ids)
              /\ OldShowDevice(hide_unconnected, device_has_connections)
           THEN /\ nodes_ids' = Append(nodes_ids, device)
                /\ nodes' = Append(nodes, OldNodeOf(device, plugin_config.device_img))
           ELSE UNCHANGED <<nodes_ids, nodes>>
    /\ todo' = Tail(todo)
    /\ UNCHANGED <<db, args, ignore_cable_types, enable_circuit_terminations,
                   enabled_device_images, device_ids, devices_with_cables, cables, edges,
                   edge_cable, edge_ids, cable_ids, circuit_ids, links,
                   device_has_connections, cable_a_name, result, config_loaded,
                   cables_queried>>

\* results["nodes"] = nodes; results["edges"] = edges; return results
OldReturn ==
    /\ pc = "old_devices"
    /\ todo = <<>>
    /\ pc' = "done"
    /\ result' = [none |-> FALSE, nodes |-> nodes, edges |-> edges]
    /\ UNCHANGED <<db, args, ignore_cable_types, enable_circuit_terminations,
                   enabled_device_images, locals, config_loaded, cables_queried>>

Next ==
    \/ DirectCall
    \/ TopologyHomeView_get
    \/ CheckQueryset
    \/ LoadConfig
    \/ QueryCables
    \/ CableStep
    \/ CablesDone
    \/ NodeStep
    \/ Return
    \/ OldCall
    \/ OldCheckQueryset
    \/ OldLoadConfig
    \/ OldDeviceStart
    \/ OldLinkStep
    \/ OldNodeStep
    \/ OldReturn

Spec == Init /\ [][Next]_vars

\* ------------------------------------------------------------- properties
\* get_topology_data is the function called.
InNew == caller \in {"view", "direct"}

\* get_topology_data has returned a graph (not None).
ReturnedGraph == InNew /\ pc = "done" /\ ~result.none

\* get_topology_data_old has returned a graph (not None).
OldReturnedGraph == caller = "old" /\ pc = "done" /\ ~result.none

Requested == SeqToSet(queryset)

NodeIds(ns) == {ns[i].id : i \in DOMAIN ns}

EdgeEndpoints(es) == {es[i].from : i \in DOMAIN es} \cup {es[i].to : i \in DOMAIN es}

\* The cable row an edge was built from.
CableOfEdge(i) == CHOOSE c \in db_cables : c.id = edge_cable[i]

\* C1: every edge of the result has both endpoint devices in the requested
\* device set.
C1_EdgesWithinRequest ==
    ReturnedGraph =>
        \A i \in DOMAIN result.edges :
            /\ result.edges[i].from \in Requested
            /\ result.edges[i].to \in Requested

\* C2: every edge's from and to are each the id of some returned node.
C2_NoDanglingEdge ==
    ReturnedGraph =>
        \A i \in DOMAIN result.edges :
            /\ result.edges[i].from \in NodeIds(result.nodes)
            /\ result.edges[i].to \in NodeIds(result.nodes)

C4_HiddenUnconnected ==
    /\ InNew => devices_with_cables = EdgeEndpoints(edges)
    /\ (InNew /\ Truthy(hide_unconnected)) => NodeIds(nodes) \subseteq EdgeEndpoints(edges)
    /\ (ReturnedGraph /\ Truthy(hide_unconnected)) =>
          NodeIds(result.nodes) \subseteq EdgeEndpoints(result.edges)

C4_Witness ==
    /\ ReturnedGraph
    /\ Truthy(hide_unconnected)
    /\ Len(result.nodes) >= 1
    /\ Len(result.nodes) < Len(queryset)

\* A cable with one circuit termination and one device termination.
IsCircuitCable(c) == IsCircuitTermination(c.termination_a) # IsCircuitTermination(c.termination_b)

CircuitSide(c) == IF IsCircuitTermination(c.termination_a) THEN c.termination_a ELSE c.termination_b

DeviceSide(c) == IF IsCircuitTermination(c.termination_a) THEN c.termination_b ELSE c.termination_a

\* At least one termination type of the cable is named in the list.
IsIgnored(c, names) ==
    c.termination_a.type.name \in names \/ c.termination_b.type.name \in names

\* The cable is attached to the device.
Touches(c, d) ==
    TerminationDeviceIn(c.termination_a, {d}) \/ TerminationDeviceIn(c.termination_b, {d})

\* C5: with circuit terminations enabled, two requested devices cabled to the
\* two terminations of one circuit are joined by an edge with dashes = true
\* and a title beginning "Circuit: ".
C5_CircuitEdge ==
    (ReturnedGraph /\ Truthy(enable_circuit_terminations)) =>
        \A x, y \in db_cables :
            ( /\ x # y
              /\ IsCircuitCable(x) /\ IsCircuitCable(y)
              /\ CircuitSide(x).circuit = CircuitSide(y).circuit
              /\ DeviceSide(x).device \in Requested
              /\ DeviceSide(y).device \in Requested
              /\ ~IsIgnored(x, ignore_cable_types.v)
              /\ ~IsIgnored(y, ignore_cable_types.v) )
            => \E i \in DOMAIN result.edges :
                  /\ {result.edges[i].from, result.edges[i].to}
                       = {DeviceSide(x).device, DeviceSide(y).device}
                  /\ "dashes" \in DOMAIN result.edges[i]
                  /\ result.edges[i].dashes = TRUE
                  /\ result.edges[i].title[1] = "Circuit: "

\* The circuits the cable is attached to.
CircuitsOfCable(c) ==
    {t.circuit : t \in {u \in {c.termination_a, c.termination_b} : IsCircuitTermination(u)}}

\* The edges built from a cable attached to the circuit.
EdgesOfCircuit(es, circuit) ==
    {i \in DOMAIN es : circuit \in CircuitsOfCable(CableOfEdge(i))}

C8_UnsetParametersTakeConfig ==
    (ReturnedGraph /\ caller = "view") =>
        /\ \A i \in DOMAIN result.edges :
              ~IsIgnored(CableOfEdge(i), plugin_config.ignore_cable_type)
        /\ \A i \in DOMAIN result.edges :
              ~plugin_config.enable_circuit_terminations = "True"
                  => ~IsCircuitCable(CableOfEdge(i))
        /\ \A i \in DOMAIN result.nodes :
              result.nodes[i].image[2] # "role-unknown"
                  <=> DeviceRoleSlug(result.nodes[i].id) \in plugin_config.device_img

\* C9: with hide_unconnected false or unset the nodes are the requested
\* devices, one each and in input order, and a requested device without
\* cables is the endpoint of no edge.
C9_AllDevicesShown ==
    (ReturnedGraph /\ ~Truthy(hide_unconnected)) =>
        /\ Len(result.nodes) = Len(queryset)
        /\ \A i \in DOMAIN result.nodes :
              /\ result.nodes[i].id = queryset[i]
              /\ result.nodes[i].label = escape(DeviceStr(queryset[i]))
        /\ \A d \in Requested :
              (\A c \in db_cables : ~Touches(c, d)) => d \notin EdgeEndpoints(result.edges)

C9_Witness ==
    /\ ReturnedGraph
    /\ hide_unconnected = "None"
    /\ Len(result.edges) >= 1
    /\ \E d \in Requested :
          /\ \A c \in db_cables : ~Touches(c, d)
          /\ d \in NodeIds(result.nodes)

\* C10: for an empty device collection the call returns None, and no
\* configuration lookup and no cable query is performed.
C10_EmptyReturnsNone ==
    (pc # "idle" /\ queryset = <<>>) =>
        /\ ~config_loaded
        /\ ~cables_queried
        /\ pc = "done" => result.none

C10_Witness ==
    /\ pc = "done"
    /\ queryset = <<>>
    /\ result.none
    /\ ignore_cable_types.none
    /\ hide_unconnected = "True"

\* The string "untitled-<identifier>" of a device.
UntitledName(d) == <<"u", "n", "t", "i", "t", "l", "e", "d", "-">> \o DeviceIdentifier(d)

\* C11: the 'name' of every returned node is the escaped display name of its
\* device when the device has one, and "untitled-<identifier>" exactly when
\* the display name is absent.
C11_NodeName ==
    ReturnedGraph =>
        \A i \in DOMAIN result.nodes :
            LET d == result.nodes[i].id
            IN  /\ ~DeviceName(d).none => result.nodes[i].name = escape(DeviceName(d).s)
                /\ DeviceName(d).none <=> result.nodes[i].name = escape(UntitledName(d))

====
